---- MODULE Spec2Model ----
(***************************************************************************)
(* TypedEventEmitter (typed-event-emitter.ts): a Map from String(event) to *)
(* a Set of listener functions, with on/off/once/clear, the synchronous    *)
(* emit and the promise-based emitAsync.                                   *)
(*                                                                         *)
(* JavaScript objects are modelled by reference: every Set the emitter     *)
(* allocates is a cell of `heap`, the Map holds the index of the cell, and *)
(* the unsubscribe closures returned by on() keep the index they captured. *)
(* The call stack holds the listeners that are currently running; the      *)
(* microtask queue holds the promise jobs of emitAsync, one job per link   *)
(* of the chain of lines 185-193, run one at a time in FIFO order.         *)
(***************************************************************************)
EXTENDS Integers, Sequences, FiniteSets

\* ---------------------------------------------------------------- bounds
MaxSets == 2        \* Set objects the emitter may allocate
MaxOnce == 1        \* once() calls
MaxEmits == 2       \* emit()/emitAsync() calls
MaxBodyOps == 1     \* emitter calls the listeners of one emission may make
MaxTailOps == 1     \* calls the caller makes after emitAsync before it yields

\* ---------------------------------------------------------------- inputs
\* Event identifiers passed by callers: strings and numbers.
EventIds ==
  { [t |-> "str", v |-> "x"], [t |-> "num", v |-> "1"],
    [t |-> "str", v |-> "1"] }

\* String(event): a string is itself, a number is its decimal numeral; the
\* kind of the identifier is lost.
StringOf(ev) == ev.v

Keys == { StringOf(ev) : ev \in EventIds }

\* The event the emission runs use, and the listener they pass to once().
EmitIds == { [t |-> "str", v |-> "x"] }
OnceFn == "A"

\* The listener that the runs with concurrent emitAsync calls pass to on().
PlainFn == "B"

\* User listener functions (references), and the payload values: the n-th
\* emission of a run carries the n-th value.
Fns == { "A", "B" }
Payloads == << "p1", "p2", "p3", "p4" >>

\* The arrow functions created by once(): one fresh reference per call.
WName == << "W1", "W2", "W3" >>
IsWrapper(l) == \E n \in 1..Len(WName) : WName[n] = l
WIndex(l) == CHOOSE n \in 1..Len(WName) : WName[n] = l

\* What a user function returns / throws when it does.
RetVal(fn) == IF fn = "A" THEN "vA" ELSE "vB"
ErrVal(fn) == IF fn = "A" THEN "eA" ELSE "eB"

VARIABLES
  listeners,  \* this.listeners: key -> index of its Set in heap, 0 = no entry
  heap,       \* the Set objects, each in insertion order
  wrappers,   \* once() wrappers: the listener and the unsubscribe they hold
  unsubs,     \* unsubscribe closures returned so far
  called,     \* the closures that have been called at least once
  last,       \* the closure the last step called, NoClosure if it called none
  stack,      \* running listener invocations, innermost last
  queue,      \* microtask queue: the promise jobs not yet run, oldest first
  ems,        \* one record per emit/emitAsync call
  inSync,     \* the top-level caller's synchronous code is running
  tail,       \* calls the caller made while microtasks were pending
  removed,    \* (key, listener) pairs removed and not registered again
  result      \* the last call of the caller: operation, arguments, return value

core == << listeners, heap, wrappers, unsubs, stack, queue, ems, inSync,
           tail, removed >>
vars == << core, called, last, result >>

\* ------------------------------------------------------- Set operations
Range(s) == { s[i] : i \in 1..Len(s) }

\* An add that appends even when the element is present.
SetAddAlways(s, l) == Append(s, l)

\* Set.prototype.add: appends unless present (insertion order kept).
SetAdd(s, l) == IF l \in Range(s) THEN s ELSE Append(s, l)

\* Set.prototype.delete
SetDelete(s, l) == SelectSeq(s, LAMBDA x : x # l)

\* ---------------------------------------------------- registry contents
\* The listeners of a key as a caller can observe them: the Set the Map
\* holds for the key, or nothing.
ViewOf(map, hp, key) == IF map[key] = 0 THEN << >> ELSE hp[map[key]]
View(key) == ViewOf(listeners, heap, key)

RegOf(map, hp) ==
  UNION { { << k, l >> : l \in Range(ViewOf(map, hp, k)) } : k \in Keys }
Registered == RegOf(listeners, heap)

\* listenerCount(event) / hasListeners(event)
listenerCount(ev) ==
  IF listeners[StringOf(ev)] = 0 THEN 0 ELSE Len(heap[listeners[StringOf(ev)]])
hasListeners(ev) == listenerCount(ev) > 0

\* ------------------------------------------------- registry transformers
\* on(): lines 128-131.
OnReg(map, hp, key, l) ==
  LET fresh == map[key] = 0
      hp1 == IF fresh THEN Append(hp, << >>) ELSE hp
      map1 == IF fresh THEN [map EXCEPT ![key] = Len(hp) + 1] ELSE map
      s == map1[key]
  IN  [map |-> map1, heap |-> [hp1 EXCEPT ![s] = SetAdd(@, l)], set |-> s]

\* off() that reports the removal but leaves the listener in the Set.
OffRegKeepsListener(map, hp, key, l) ==
  [map |-> map, heap |-> hp,
   ret |-> map[key] # 0 /\ l \in Range(ViewOf(map, hp, key))]

\* off() that, given the listener passed to once(), also removes the
\* wrappers once() registered for it.
OffRegRemovesOnceOf(map, hp, key, l) ==
  IF map[key] = 0
  THEN [map |-> map, heap |-> hp, ret |-> FALSE]
  ELSE LET s == map[key]
           hp1 == [hp EXCEPT ![s] = SelectSeq(@, LAMBDA x :
                     /\ x # l
                     /\ ~(\E n \in 1..Len(wrappers) :
                            WName[n] = x /\ wrappers[n].fn = l))]
       IN  [map |-> IF hp1[s] = << >> THEN [map EXCEPT ![key] = 0] ELSE map,
            heap |-> hp1,
            ret |-> Len(hp1[s]) < Len(hp[s])]

\* off() that returns true whenever the event has a Set.
OffRegReportsSetFound(map, hp, key, l) ==
  IF map[key] = 0
  THEN [map |-> map, heap |-> hp, ret |-> FALSE]
  ELSE LET s == map[key]
           hp1 == [hp EXCEPT ![s] = SetDelete(@, l)]
       IN  [map |-> IF hp1[s] = << >> THEN [map EXCEPT ![key] = 0] ELSE map,
            heap |-> hp1,
            ret |-> TRUE]

\* off(): lines 42-50.
OffReg(map, hp, key, l) ==
  IF map[key] = 0
  THEN [map |-> map, heap |-> hp, ret |-> FALSE]
  ELSE LET s == map[key]
           hp1 == [hp EXCEPT ![s] = SetDelete(@, l)]
       IN  [map |-> IF hp1[s] = << >> THEN [map EXCEPT ![key] = 0] ELSE map,
            heap |-> hp1,
            ret |-> l \in Range(hp[s])]

\* An unsubscribe closure without its set.delete(listener).
UnsubRegKeepsListener(map, hp, c) ==
  [map |-> IF hp[c.set] = << >> THEN [map EXCEPT ![c.key] = 0] ELSE map,
   heap |-> hp]

\* An unsubscribe closure without its `if (set.size === 0)` line.
UnsubRegLeavesEmptySet(map, hp, c) ==
  [map |-> map, heap |-> [hp EXCEPT ![c.set] = SetDelete(@, c.l)]]

\* The closure returned by on(): lines 132-135.  c.set is the Set captured
\* when on() ran, whatever the Map holds for the key now.
UnsubReg(map, hp, c) ==
  LET hp1 == [hp EXCEPT ![c.set] = SetDelete(@, c.l)]
  IN  [map |-> IF hp1[c.set] = << >> THEN [map EXCEPT ![c.key] = 0] ELSE map,
       heap |-> hp1]

\* clear(event) that drops every entry of the Map.
ClearRegEveryKey(map, key) == [k \in Keys |-> 0]

\* clear(event) / clear(): lines 86-90.  The Set objects are not emptied.
ClearReg(map, key) == [map EXCEPT ![key] = 0]
ClearAllReg(map) == [k \in Keys |-> 0]

NoClosure == [set |-> 0, l |-> "", key |-> ""]

\* A call of the caller as it is observed: `ret` is what off() returned
\* (line 50), FALSE for the operations that return nothing to compare.
NoResult == [op |-> "none", key |-> "", ev |-> [t |-> "", v |-> ""],
             l |-> "", ret |-> FALSE]
Result(op, ev, l, ret) ==
  [op |-> op, key |-> StringOf(ev), ev |-> ev, l |-> l, ret |-> ret]
Closure(s, l, key) == [set |-> s, l |-> l, key |-> key]

\* The unsubscribe a once() wrapper calls in its finally block.
WrapperClosure(l) ==
  Closure(wrappers[WIndex(l)].set, l, wrappers[WIndex(l)].key)

\* Who may call the emitter: the top-level caller while its synchronous code
\* runs and no listener is running (after an emitAsync it makes at most
\* MaxTailOps further calls before it yields), or the innermost running
\* listener (the listeners of one emission make at most MaxBodyOps calls).
CanCall ==
  \/ stack = << >> /\ inSync /\ (queue = << >> \/ tail < MaxTailOps)
  \/ stack # << >> /\ ems[stack[Len(stack)].em].ops < MaxBodyOps

TailAfter == IF stack = << >> /\ queue # << >> THEN tail + 1 ELSE tail

\* A call made by the running listener is counted on its emission.
Charge(es) ==
  IF stack = << >> THEN es ELSE [es EXCEPT ![stack[Len(stack)].em].ops = @ + 1]

Frame(e, pos, l) == [em |-> e, pos |-> pos, l |-> l]

\* One invocation l(data).  `out` is what it did so far; `sub` is set once
\* the promise it returned has been subscribed to.
Call(l, p) == [l |-> l, p |-> p, out |-> "running", sub |-> FALSE]

\* A job of the microtask queue, for the listener at `pos` of emission `e`
\* (pos = 0 for the jobs of the call as a whole):
\*   "listener"  () => l(data), queued by Promise.resolve().then (185-186)
\*   "return"    `return Promise.all(promises)` in the async function: the
\*               job that subscribes the call's promise to Promise.all's
\*   "adopt"     l(data) returned a promise: the job that subscribes the
\*               promise of line 186 to it
\*   "adopted"   the promise l(data) returned has settled: its reaction
\*               settles the promise of line 186
\*   "outcome"   the reaction of lines 188-189
\*   "element"   Promise.all's reaction to one settled element
\*   "resolve"   the reaction that resolves the call's promise with the array
\*   "caller"    the continuation of the caller's code after an await
Job(kind, e, pos) == [job |-> kind, em |-> e, pos |-> pos]

\* ---------------------------------------------------------- bookkeeping
\* The record of a call that has finished is kept for one state and blanked
\* by the next step: what a finished call did is judged where it finishes.
Blank ==
  [kind |-> "done", key |-> "", p |-> "", snap |-> << >>, atStart |-> << >>,
   gone |-> {}, status |-> "done", calls |-> << >>, results |-> << >>,
   values |-> << >>, ops |-> 0]
Finished(em) == em.status \in { "returned", "threw", "resolved", "done" }
Purge(es) == [i \in 1..Len(es) |-> IF Finished(es[i]) THEN Blank ELSE es[i]]

\* A wrapper is invoked once more.
Fire(ws, l) ==
  IF IsWrapper(l) THEN [ws EXCEPT ![WIndex(l)].fired = @ + 1] ELSE ws

\* An emission of `key` is made: the once() registrations of that key have
\* seen an emission.
See(ws, key) ==
  [n \in 1..Len(ws) |->
     IF ws[n].key = key THEN [ws[n] EXCEPT !.seen = TRUE] ELSE ws[n]]

\* A once() registration is cancelled when its unsubscribe is called before
\* any emission of its event was made.
CancelMark(ws, c) ==
  [n \in 1..Len(ws) |->
     IF WName[n] = c.l /\ ~ws[n].seen
     THEN [ws[n] EXCEPT !.cancelled = TRUE] ELSE ws[n]]

\* (key, listener) pairs removed and not registered again, after a step that
\* leaves the registry (map, hp) and was meant to remove `intent`.
RemovedAfter(intent, map, hp) ==
  ((removed \cup (Registered \ RegOf(map, hp))) \ RegOf(map, hp)) \cup intent

Init ==
  /\ listeners = [k \in Keys |-> 0]
  /\ heap = << >>
  /\ wrappers = << >>
  /\ unsubs = {}
  /\ called = {}
  /\ last = NoClosure
  /\ stack = << >>
  /\ queue = << >>
  /\ ems = << >>
  /\ inSync = TRUE
  /\ tail = 0
  /\ removed = {}
  /\ result = NoResult

\* ------------------------------------------------------------- actions
On(ev, fn) ==
  LET key == StringOf(ev)
      r == OnReg(listeners, heap, key, fn)
  IN  /\ CanCall
      /\ listeners[key] # 0 \/ Len(heap) < MaxSets
      /\ listeners' = r.map
      /\ heap' = r.heap
      /\ unsubs' = unsubs \cup { Closure(r.set, fn, key) }
      /\ ems' = Charge(Purge(ems))
      /\ removed' = RemovedAfter({}, r.map, r.heap)
      /\ tail' = TailAfter
      /\ UNCHANGED << wrappers, stack, queue, inSync >>

Off(ev, fn) ==
  LET key == StringOf(ev)
      r == OffReg(listeners, heap, key, fn)
  IN  /\ CanCall
      /\ listeners' = r.map
      /\ heap' = r.heap
      /\ ems' = Charge(Purge(ems))
      /\ removed' = RemovedAfter({ << key, fn >> } \cap Registered, r.map, r.heap)
      /\ tail' = TailAfter
      /\ UNCHANGED << wrappers, unsubs, stack, queue, inSync >>

\* once(): lines 66-73.  The wrapper is registered through on().
Once(ev, fn) ==
  LET key == StringOf(ev)
      w == WName[Len(wrappers) + 1]
      r == OnReg(listeners, heap, key, w)
  IN  /\ CanCall
      /\ Len(wrappers) < MaxOnce
      /\ listeners[key] # 0 \/ Len(heap) < MaxSets
      /\ listeners' = r.map
      /\ heap' = r.heap
      /\ wrappers' = Append(wrappers,
           [fn |-> fn, key |-> key, set |-> r.set,
            fired |-> 0, seen |-> FALSE, cancelled |-> FALSE])
      /\ unsubs' = unsubs \cup { Closure(r.set, w, key) }
      /\ ems' = Charge(Purge(ems))
      /\ removed' = RemovedAfter({}, r.map, r.heap)
      /\ tail' = TailAfter
      /\ UNCHANGED << stack, queue, inSync >>

Clear(ev) ==
  /\ CanCall
  /\ listeners' = ClearReg(listeners, StringOf(ev))
  /\ ems' = Charge(Purge(ems))
  /\ removed' = RemovedAfter({ pr \in Registered : pr[1] = StringOf(ev) },
                          ClearReg(listeners, StringOf(ev)), heap)
  /\ tail' = TailAfter
  /\ UNCHANGED << heap, wrappers, unsubs, stack, queue, inSync >>

ClearAll ==
  /\ CanCall
  /\ listeners' = ClearAllReg(listeners)
  /\ ems' = Charge(Purge(ems))
  /\ removed' = RemovedAfter(Registered, ClearAllReg(listeners), heap)
  /\ tail' = TailAfter
  /\ UNCHANGED << heap, wrappers, unsubs, stack, queue, inSync >>

\* Calling an unsubscribe function returned by on() or once().
Unsub(c) ==
  LET r == UnsubReg(listeners, heap, c)
  IN  /\ CanCall
      /\ listeners' = r.map
      /\ heap' = r.heap
      /\ wrappers' = CancelMark(wrappers, c)
      /\ ems' = Charge(Purge(ems))
      /\ removed' = RemovedAfter({}, r.map, r.heap)
      /\ tail' = TailAfter
      /\ UNCHANGED << unsubs, stack, queue, inSync >>

\* A snapshot that lists the listeners last-registered first.
SnapshotReversed(set) == [i \in 1..Len(set) |-> set[Len(set) + 1 - i]]

\* Array.from(set): the elements in insertion order, as a fresh array.
Snapshot(set) == [i \in 1..Len(set) |-> set[i]]

\* Iterating the Set the Map holds now instead of the array copied from it.
IterListLive(e) == View(ems[e].key) \o ems[e].snap

\* The array an emission iterates: the `listeners` constant of emit/emitAsync.
IterList(e) == ems[e].snap

\* The argument a listener is called with: `data`, i.e. payload[0].
Data(e) == ems[e].p

\* A slot of the outcome arrays that holds nothing yet.
NoOutcome == [ok |-> "none", v |-> ""]

Emission(kind, key, p, snap, status) ==
  [kind |-> kind, key |-> key, p |-> p, snap |-> snap,
   atStart |-> View(key),
   gone |-> { pr[2] : pr \in { q \in removed : q[1] = key } },
   status |-> status,
   calls |-> << >>,
   results |-> [i \in 1..Len(snap) |-> NoOutcome],
   values |-> [i \in 1..Len(snap) |-> NoOutcome],
   ops |-> 0]

\* emit(): lines 154-162.  The first listener of the snapshot starts running.
Emit(ev, p) ==
  LET key == StringOf(ev)
      s == listeners[key]
      e == Len(ems) + 1
      snap == Snapshot(heap[s])
  IN  /\ CanCall
      /\ Len(ems) < MaxEmits
      /\ IF s = 0
         THEN /\ ems' = Append(Charge(Purge(ems)),
                               Emission("emit", key, p, << >>, "returned"))
              /\ stack' = stack
              /\ wrappers' = See(wrappers, key)
         ELSE /\ ems' = Append(Charge(Purge(ems)),
                   [Emission("emit", key, p, snap, "running")
                      EXCEPT !.calls = << Call(snap[1], p) >>])
              /\ stack' = Append(stack, Frame(e, 1, snap[1]))
              /\ wrappers' = Fire(See(wrappers, key), snap[1])
      /\ tail' = TailAfter
      /\ UNCHANGED << listeners, heap, unsubs, queue, inSync, removed >>

\* emitAsync(): lines 178-193.  Promise.resolve().then(...) queues one
\* job per listener of the snapshot; none runs during the call.  Returning
\* Promise.all's promise from the async function queues the job that
\* subscribes the call's promise to it.  Without a Set the call's promise is
\* resolved with [] at once.
EmitAsync(ev, p) ==
  LET key == StringOf(ev)
      s == listeners[key]
      e == Len(ems) + 1
      snap == Snapshot(heap[s])
  IN  /\ CanCall
      /\ Len(ems) < MaxEmits
      /\ IF s = 0
         THEN /\ ems' = Append(Charge(Purge(ems)),
                               Emission("async", key, p, << >>, "resolved"))
              /\ queue' = queue
         ELSE /\ ems' = Append(Charge(Purge(ems)),
                               Emission("async", key, p, snap, "pending"))
              /\ queue' = queue \o [i \in 1..Len(snap) |-> Job("listener", e, i)]
                                \o << Job("return", e, 0) >>
      /\ wrappers' = See(wrappers, key)
      /\ tail' = TailAfter
      /\ UNCHANGED << listeners, heap, unsubs, stack, inSync, removed >>

\* Listener jobs that may run while the caller's synchronous code is running.
RunTaskInCallerCode ==
  /\ stack = << >>
  /\ queue # << >>
  /\ Head(queue).job = "listener"
  /\ LET t == Head(queue)
         l == ems[t.em].snap[t.pos]
     IN  /\ stack' = << Frame(t.em, t.pos, l) >>
         /\ ems' = [Purge(ems) EXCEPT ![t.em].calls = Append(@, Call(l, ems[t.em].p))]
         /\ wrappers' = Fire(wrappers, l)
  /\ queue' = Tail(queue)
  /\ UNCHANGED << listeners, heap, unsubs, inSync, tail, removed >>

\* Listener jobs that wait for the listeners before them to settle.
RunTaskAfterEarlierSettled ==
  /\ stack = << >>
  /\ ~inSync
  /\ queue # << >>
  /\ Head(queue).job = "listener"
  /\ LET t == Head(queue)
         l == ems[t.em].snap[t.pos]
     IN  /\ \A i \in 1..(t.pos - 1) :
              ems[t.em].results[i].ok \in { "true", "false" }
         /\ stack' = << Frame(t.em, t.pos, l) >>
         /\ ems' = [Purge(ems) EXCEPT ![t.em].calls = Append(@, Call(l, ems[t.em].p))]
         /\ wrappers' = Fire(wrappers, l)
  /\ queue' = Tail(queue)
  /\ UNCHANGED << listeners, heap, unsubs, inSync, tail, removed >>

\* The job at the head of the queue is of `kind` and may run: jobs run one
\* at a time with an empty call stack, after the synchronous code that
\* queued them has finished.
Runs(kind) ==
  /\ stack = << >>
  /\ ~inSync
  /\ queue # << >>
  /\ Head(queue).job = kind

\* A queued `() => l(data)` job runs (line 186).
RunTask ==
  /\ Runs("listener")
  /\ LET t == Head(queue)
         l == IterList(t.em)[t.pos]
     IN  /\ stack' = << Frame(t.em, t.pos, l) >>
         /\ ems' = [Purge(ems) EXCEPT ![t.em].calls = Append(@, Call(l, Data(t.em)))]
         /\ wrappers' = Fire(wrappers, l)
  /\ queue' = Tail(queue)
  /\ UNCHANGED << listeners, heap, unsubs, inSync, tail, removed >>

\* A wrapper that unsubscribes after the listener only when it returned.
AfterListenerNoFinally(l, out) ==
  IF IsWrapper(l) /\ out # "threw"
  THEN UnsubReg(listeners, heap, WrapperClosure(l))
  ELSE [map |-> listeners, heap |-> heap]

\* The registry after the running listener finishes with `out`: a once()
\* wrapper calls its unsubscribe in its finally block (lines 67-71) whether
\* the listener returned or threw, a plain listener leaves the registry alone.
AfterListener(l, out) ==
  IF IsWrapper(l)
  THEN UnsubReg(listeners, heap, WrapperClosure(l))
  ELSE [map |-> listeners, heap |-> heap]

\* An outcome {ok: true, value} or {ok: false, error}, as opposed to a slot
\* that has none yet.
Settled(res) == res.ok \in { "true", "false" }

\* The reaction of lines 187-190 for the listener at `pos` returns the
\* outcome `res`: the promise of that listener is fulfilled with it.
Settle(em, pos, res) == [em EXCEPT !.results[pos] = res]

\* A Promise.all that keeps the outcomes in the order they arrive.
CollectInCompletionOrder(em, pos) ==
  LET free == { i \in 1..Len(em.values) : ~Settled(em.values[i]) }
      slot == CHOOSE i \in free : \A k \in free : i <= k
  IN  [em EXCEPT !.values[slot] = em.results[pos]]

\* Promise.all(promises), line 193: the outcome of the promise at `pos` goes
\* to index `pos` of the array, whenever it arrives.
Collect(em, pos) == [em EXCEPT !.values[pos] = em.results[pos]]

\* Promise.all has the outcome of every promise it was given.
AllSettled(em) == \A i \in 1..Len(em.values) : Settled(em.values[i])

\* A loop that catches what a listener throws and goes on.
NextPosIgnoresThrow(e, pos, out) ==
  IF pos < Len(IterList(e)) THEN pos + 1 ELSE 0

\* forEach after the listener at `pos` finished with `out`: the index of the
\* listener it calls next, 0 when the loop is over.  Nothing in emit catches,
\* so a throw ends the loop.
NextPos(e, pos, out) ==
  IF out = "threw" THEN 0
  ELSE IF pos < Len(IterList(e)) THEN pos + 1 ELSE 0

\* The user function behind a listener of the Set: the function passed to
\* once() for a wrapper, the listener itself otherwise.
UserFn(l) == IF IsWrapper(l) THEN wrappers[WIndex(l)].fn ELSE l

\* Outcomes that report every listener as succeeded.
OutcomeSwallowsError(l, out) ==
  IF IsWrapper(l) THEN [ok |-> "true", v |-> "undefined"]
  ELSE [ok |-> "true", v |-> RetVal(l)]

\* The outcome the reaction of lines 188-189 makes for a listener.  `out`
\* is how the promise of line 186 settled: l(data) returned a value or threw,
\* or the promise it returned was fulfilled or rejected.  A once() wrapper
\* has no return statement: whatever its listener returns (a promise
\* included), it returns undefined.
Outcome(l, out) ==
  IF out \in { "threw", "rejected" }
  THEN [ok |-> "false", v |-> ErrVal(UserFn(l))]
  ELSE IF IsWrapper(l) THEN [ok |-> "true", v |-> "undefined"]
  ELSE [ok |-> "true", v |-> RetVal(l)]

\* How a call of emit ends after its last listener finished with `out`.
EmitEnd(out) == IF out = "threw" THEN "threw" ELSE "returned"

\* The job queued when l(data), called by the job of line 186, finishes
\* with `out`: a value or a throw settles the promise of line 186 and queues
\* its reaction; a returned promise queues the job that subscribes to it.
ChainJob(e, pos, l, out) ==
  IF out = "promised" /\ ~IsWrapper(l)
  THEN Job("adopt", e, pos)
  ELSE Job("outcome", e, pos)

\* The innermost running listener returns a value, throws, or returns a
\* promise (`out`).  A once() wrapper's finally block runs first.  In emit,
\* forEach goes on to the next listener of the array, or emit returns, or
\* the error leaves emit; in emitAsync the next job of the listener's
\* promise chain is queued, behind the jobs already in the queue.
Leave(out) ==
  /\ stack # << >>
  /\ LET f == stack[Len(stack)]
         em == ems[f.em]
         r == AfterListener(f.l, out)
         rest == SubSeq(stack, 1, Len(stack) - 1)
         done == [em.calls EXCEPT ![Len(em.calls)].out = out]
         nxt == NextPos(f.em, f.pos, out)
     IN  /\ listeners' = r.map
         /\ heap' = r.heap
         /\ removed' = RemovedAfter({}, r.map, r.heap)
         /\ IF em.kind = "emit"
            THEN IF nxt # 0
                 THEN LET l == IterList(f.em)[nxt]
                      IN  /\ stack' = Append(rest, Frame(f.em, nxt, l))
                          /\ ems' = [Purge(ems) EXCEPT ![f.em].calls =
                                       Append(done, Call(l, Data(f.em)))]
                          /\ wrappers' = Fire(wrappers, l)
                          /\ queue' = queue
                 ELSE /\ stack' = rest
                      /\ ems' = [Purge(ems) EXCEPT ![f.em].calls = done,
                                                   ![f.em].status = EmitEnd(out)]
                      /\ wrappers' = wrappers
                      /\ queue' = queue
            ELSE /\ stack' = rest
                 /\ ems' = [Purge(ems) EXCEPT ![f.em].calls = done]
                 /\ wrappers' = wrappers
                 /\ queue' = Append(queue, ChainJob(f.em, f.pos, f.l, out))
  /\ UNCHANGED << unsubs, inSync, tail >>

FnReturn == Leave("returned")
FnThrow == Leave("threw")
FnReturnsPromise == Leave("promised")

\* The listeners of emitAsync calls whose returned promise is awaited by the
\* chain and has not settled.  The promise returned to a once() wrapper is
\* dropped by the wrapper.
Pending ==
  UNION { { << e, i >> : i \in { j \in 1..Len(ems[e].calls) :
                                   /\ ems[e].kind = "async"
                                   /\ ems[e].calls[j].out = "promised"
                                   /\ ~IsWrapper(ems[e].calls[j].l) } } :
          e \in 1..Len(ems) }

\* The promise a listener returned to emitAsync is fulfilled or rejected
\* (`how`) by whoever holds its resolver: the caller's code or a job between
\* two jobs of the queue.  If the promise was subscribed to, its reaction is
\* queued.
PromiseSettles(e, pos, how) ==
  /\ stack = << >>
  /\ << e, pos >> \in Pending
  /\ ems' = [Purge(ems) EXCEPT ![e].calls[pos].out = how]
  /\ queue' = IF ems[e].calls[pos].sub
              THEN Append(queue, Job("adopted", e, pos))
              ELSE queue
  /\ UNCHANGED << listeners, heap, wrappers, unsubs, stack, inSync,
                  tail, removed >>

PromiseFulfilled == \E t \in Pending : PromiseSettles(t[1], t[2], "fulfilled")
PromiseRejected == \E t \in Pending : PromiseSettles(t[1], t[2], "rejected")

\* The job queued by `return Promise.all(promises)` runs: the call's promise
\* is subscribed to Promise.all's, which is pending.
ReturnAll ==
  /\ Runs("return")
  /\ queue' = Tail(queue)
  /\ ems' = Purge(ems)
  /\ UNCHANGED << listeners, heap, wrappers, unsubs, stack, inSync, tail,
                  removed >>

\* The job that subscribes the promise of line 186 to the promise l(data)
\* returned: if that promise has settled meanwhile its reaction is queued.
AdoptPromise ==
  /\ Runs("adopt")
  /\ LET t == Head(queue)
     IN  /\ ems' = [Purge(ems) EXCEPT ![t.em].calls[t.pos].sub = TRUE]
         /\ queue' = IF ems[t.em].calls[t.pos].out = "promised"
                     THEN Tail(queue)
                     ELSE Append(Tail(queue), Job("adopted", t.em, t.pos))
  /\ UNCHANGED << listeners, heap, wrappers, unsubs, stack, inSync, tail,
                  removed >>

\* The reaction to the settled promise of a listener settles the promise of
\* line 186, which queues the reaction of lines 188-189.
PromiseAdopted ==
  /\ Runs("adopted")
  /\ LET t == Head(queue)
     IN  queue' = Append(Tail(queue), Job("outcome", t.em, t.pos))
  /\ ems' = Purge(ems)
  /\ UNCHANGED << listeners, heap, wrappers, unsubs, stack, inSync, tail,
                  removed >>

\* The reaction (v) => ({ok: true, value: v}) or (e) => ({ok: false,
\* error: e}) of lines 188-189 runs: the listener's outcome is made, and
\* Promise.all's reaction to it is queued.
Reaction ==
  /\ Runs("outcome")
  /\ LET t == Head(queue)
         em == ems[t.em]
     IN  /\ ems' = [Purge(ems) EXCEPT ![t.em] =
                      Settle(em, t.pos, Outcome(IterList(t.em)[t.pos],
                                                em.calls[t.pos].out))]
         /\ queue' = Append(Tail(queue), Job("element", t.em, t.pos))
  /\ UNCHANGED << listeners, heap, wrappers, unsubs, stack, inSync, tail,
                  removed >>

\* Promise.all's reaction to one outcome: it is stored in the array, and
\* with the last one Promise.all's promise is fulfilled, which queues the
\* reaction of the call's promise.
AllElement ==
  /\ Runs("element")
  /\ LET t == Head(queue)
         em == Collect(ems[t.em], t.pos)
     IN  /\ ems' = [Purge(ems) EXCEPT ![t.em] = em]
         /\ queue' = IF AllSettled(em)
                     THEN Append(Tail(queue), Job("resolve", t.em, 0))
                     ELSE Tail(queue)
  /\ UNCHANGED << listeners, heap, wrappers, unsubs, stack, inSync, tail,
                  removed >>

\* The promise emitAsync returned is resolved with the array of outcomes.
ResolveCall ==
  /\ Runs("resolve")
  /\ LET t == Head(queue)
     IN  ems' = [Purge(ems) EXCEPT ![t.em].status = "resolved"]
  /\ queue' = Tail(queue)
  /\ UNCHANGED << listeners, heap, wrappers, unsubs, stack, inSync, tail,
                  removed >>

\* The top-level caller's synchronous code ends with jobs or promises
\* pending, so the jobs run; once the queue is empty, a later piece of the
\* caller's code (a timer, an I/O callback) starts.
EndSync ==
  /\ stack = << >>
  /\ inSync
  /\ queue # << >> \/ Pending # {}
  /\ inSync' = FALSE
  /\ tail' = 0
  /\ ems' = Purge(ems)
  /\ UNCHANGED << listeners, heap, wrappers, unsubs, stack, queue, removed >>

BeginSync ==
  /\ stack = << >>
  /\ queue = << >>
  /\ ~inSync
  /\ inSync' = TRUE
  /\ ems' = Purge(ems)
  /\ UNCHANGED << listeners, heap, wrappers, unsubs, stack, queue, tail, removed >>

\* The caller's code awaits a settled value while jobs are queued: its
\* continuation is a job behind them, and it goes on when that job runs,
\* ahead of the jobs queued in between.
CallerAwaits ==
  /\ stack = << >>
  /\ inSync
  /\ queue # << >>
  /\ inSync' = FALSE
  /\ tail' = 0
  /\ queue' = Append(queue, Job("caller", 0, 0))
  /\ ems' = Purge(ems)
  /\ UNCHANGED << listeners, heap, wrappers, unsubs, stack, removed >>

CallerResumes ==
  /\ Runs("caller")
  /\ inSync' = TRUE
  /\ queue' = Tail(queue)
  /\ ems' = Purge(ems)
  /\ UNCHANGED << listeners, heap, wrappers, unsubs, stack, tail, removed >>

\* Emissions on one event, with every operation available to the caller and
\* to the running listeners.
Next ==
  \/ \E ev \in EmitIds, fn \in Fns : On(ev, fn) /\ UNCHANGED << called, last, result >>
  \/ \E ev \in EmitIds, fn \in Fns : Off(ev, fn) /\ UNCHANGED << called, last, result >>
  \/ \E ev \in EmitIds : Once(ev, OnceFn) /\ UNCHANGED << called, last, result >>
  \/ \E ev \in EmitIds : Clear(ev) /\ UNCHANGED << called, last, result >>
  \/ ClearAll /\ UNCHANGED << called, last, result >>
  \/ \E c \in unsubs : Unsub(c) /\ UNCHANGED << called, last, result >>
  \/ \E ev \in EmitIds : Emit(ev, Payloads[Len(ems) + 1]) /\ UNCHANGED << called, last, result >>
  \/ \E ev \in EmitIds : EmitAsync(ev, Payloads[Len(ems) + 1]) /\ UNCHANGED << called, last, result >>
  \/ RunTask /\ UNCHANGED << called, last, result >>
  \/ ReturnAll /\ UNCHANGED << called, last, result >>
  \/ Reaction /\ UNCHANGED << called, last, result >>
  \/ AllElement /\ UNCHANGED << called, last, result >>
  \/ ResolveCall /\ UNCHANGED << called, last, result >>
  \/ FnReturn /\ UNCHANGED << called, last, result >>
  \/ FnThrow /\ UNCHANGED << called, last, result >>
  \/ EndSync /\ UNCHANGED << called, last, result >>
  \/ BeginSync /\ UNCHANGED << called, last, result >>

Spec == Init /\ [][Next]_vars

\* Registrations and removals on several events, no emission; `called` and
\* `last` record the unsubscribe functions that are called.
NextReg ==
  \/ \E ev \in EventIds, fn \in Fns :
       On(ev, fn) /\ last' = NoClosure /\ UNCHANGED << called, result >>
  \/ \E ev \in EventIds, fn \in Fns :
       Off(ev, fn) /\ last' = NoClosure /\ UNCHANGED << called, result >>
  \/ \E ev \in EventIds :
       Once(ev, OnceFn) /\ last' = NoClosure /\ UNCHANGED << called, result >>
  \/ \E ev \in EventIds : Clear(ev) /\ last' = NoClosure /\ UNCHANGED << called, result >>
  \/ ClearAll /\ last' = NoClosure /\ UNCHANGED << called, result >>
  \/ \E c \in unsubs : Unsub(c) /\ last' = c /\ called' = called \cup { c }
       /\ UNCHANGED result

SpecReg == Init /\ [][NextReg]_vars

\* emitAsync calls, possibly in progress together, with one listener
\* registered by on() and one by once(), that return a value, throw, or
\* return a promise that is fulfilled or rejected later, or never; the caller
\* ends its code or awaits.
NextAsync ==
  \/ \E ev \in EmitIds : On(ev, PlainFn) /\ UNCHANGED << called, last, result >>
  \/ \E ev \in EmitIds : Once(ev, OnceFn) /\ UNCHANGED << called, last, result >>
  \/ \E ev \in EmitIds : EmitAsync(ev, Payloads[Len(ems) + 1]) /\ UNCHANGED << called, last, result >>
  \/ RunTask /\ UNCHANGED << called, last, result >>
  \/ ReturnAll /\ UNCHANGED << called, last, result >>
  \/ AdoptPromise /\ UNCHANGED << called, last, result >>
  \/ PromiseAdopted /\ UNCHANGED << called, last, result >>
  \/ Reaction /\ UNCHANGED << called, last, result >>
  \/ AllElement /\ UNCHANGED << called, last, result >>
  \/ ResolveCall /\ UNCHANGED << called, last, result >>
  \/ FnReturn /\ UNCHANGED << called, last, result >>
  \/ FnThrow /\ UNCHANGED << called, last, result >>
  \/ FnReturnsPromise /\ UNCHANGED << called, last, result >>
  \/ PromiseFulfilled /\ UNCHANGED << called, last, result >>
  \/ PromiseRejected /\ UNCHANGED << called, last, result >>
  \/ EndSync /\ UNCHANGED << called, last, result >>
  \/ BeginSync /\ UNCHANGED << called, last, result >>
  \/ CallerAwaits /\ UNCHANGED << called, last, result >>
  \/ CallerResumes /\ UNCHANGED << called, last, result >>

SpecAsync == Init /\ [][NextAsync]_vars

\* emitAsync calls, possibly in progress together, with listeners
\* registered by on() that return a value or a promise, under the
\* scheduling the JavaScript job queue gives: the caller's synchronous code
\* ends, the job at the head of the queue runs, a running listener
\* finishes.  Nothing obliges a promise returned by a listener to settle.
NextAwait ==
  \/ \E ev \in EmitIds, fn \in Fns : On(ev, fn) /\ UNCHANGED << called, last, result >>
  \/ \E ev \in EmitIds : EmitAsync(ev, Payloads[Len(ems) + 1]) /\ UNCHANGED << called, last, result >>
  \/ RunTask /\ UNCHANGED << called, last, result >>
  \/ ReturnAll /\ UNCHANGED << called, last, result >>
  \/ AdoptPromise /\ UNCHANGED << called, last, result >>
  \/ PromiseAdopted /\ UNCHANGED << called, last, result >>
  \/ Reaction /\ UNCHANGED << called, last, result >>
  \/ AllElement /\ UNCHANGED << called, last, result >>
  \/ ResolveCall /\ UNCHANGED << called, last, result >>
  \/ FnReturn /\ UNCHANGED << called, last, result >>
  \/ FnReturnsPromise /\ UNCHANGED << called, last, result >>
  \/ PromiseFulfilled /\ UNCHANGED << called, last, result >>
  \/ EndSync /\ UNCHANGED << called, last, result >>
  \/ BeginSync /\ UNCHANGED << called, last, result >>

SpecAwait ==
  /\ Init /\ [][NextAwait]_vars
  /\ WF_vars(EndSync /\ UNCHANGED << called, last, result >>)
  /\ WF_vars((RunTask \/ ReturnAll \/ AdoptPromise \/ PromiseAdopted
                \/ Reaction \/ AllElement \/ ResolveCall)
               /\ UNCHANGED << called, last, result >>)
  /\ WF_vars((FnReturn \/ FnReturnsPromise)
               /\ UNCHANGED << called, last, result >>)

\* The caller's registry calls on several event identifiers, two of which
\* have the same String(event); `result` records each call and what it
\* returned.
NextCalls ==
  \/ \E ev \in EventIds, fn \in Fns :
       On(ev, fn) /\ result' = Result("on", ev, fn, FALSE)
       /\ UNCHANGED << called, last >>
  \/ \E ev \in EventIds, fn \in Fns :
       Off(ev, fn)
       /\ result' = Result("off", ev, fn,
                           OffReg(listeners, heap, StringOf(ev), fn).ret)
       /\ UNCHANGED << called, last >>
  \/ \E ev \in EventIds :
       Once(ev, OnceFn)
       /\ result' = Result("once", ev, WName[Len(wrappers) + 1], FALSE)
       /\ UNCHANGED << called, last >>
  \/ \E ev \in EventIds :
       Clear(ev) /\ result' = Result("clear", ev, "", FALSE)
       /\ UNCHANGED << called, last >>
  \/ ClearAll /\ result' = [NoResult EXCEPT !.op = "clearAll"]
       /\ UNCHANGED << called, last >>
  \/ \E c \in unsubs :
       Unsub(c) /\ result' = [NoResult EXCEPT !.op = "unsubscribe", !.key = c.key, !.l = c.l]
       /\ UNCHANGED << called, last >>

SpecCalls == Init /\ [][NextCalls]_vars

\* on, off and once of one listener, clear(event), clear() and the
\* unsubscribe functions on one event, with emit and emitAsync, called by the caller or by a running
\* listener; `result` records the call each step makes, none for a step
\* inside an emission.
NextOnceOff ==
  \/ \E ev \in EmitIds :
       On(ev, OnceFn) /\ result' = Result("on", ev, OnceFn, FALSE)
       /\ UNCHANGED << called, last >>
  \/ \E ev \in EmitIds :
       Off(ev, OnceFn)
       /\ result' = Result("off", ev, OnceFn,
                           OffReg(listeners, heap, StringOf(ev), OnceFn).ret)
       /\ UNCHANGED << called, last >>
  \/ \E ev \in EmitIds :
       Once(ev, OnceFn)
       /\ result' = Result("once", ev, WName[Len(wrappers) + 1], FALSE)
       /\ UNCHANGED << called, last >>
  \/ \E ev \in EmitIds :
       Clear(ev) /\ result' = Result("clear", ev, "", FALSE)
       /\ UNCHANGED << called, last >>
  \/ ClearAll /\ result' = [NoResult EXCEPT !.op = "clearAll"]
     /\ UNCHANGED << called, last >>
  \/ \E c \in unsubs :
       Unsub(c)
       /\ result' = [NoResult EXCEPT !.op = "unsubscribe", !.key = c.key, !.l = c.l]
       /\ UNCHANGED << called, last >>
  \/ \E ev \in EmitIds :
       Emit(ev, Payloads[Len(ems) + 1])
       /\ result' = Result("emit", ev, "", FALSE)
       /\ UNCHANGED << called, last >>
  \/ \E ev \in EmitIds :
       EmitAsync(ev, Payloads[Len(ems) + 1])
       /\ result' = Result("emitAsync", ev, "", FALSE)
       /\ UNCHANGED << called, last >>
  \/ RunTask /\ result' = NoResult /\ UNCHANGED << called, last >>
  \/ ReturnAll /\ result' = NoResult /\ UNCHANGED << called, last >>
  \/ Reaction /\ result' = NoResult /\ UNCHANGED << called, last >>
  \/ AllElement /\ result' = NoResult /\ UNCHANGED << called, last >>
  \/ ResolveCall /\ result' = NoResult /\ UNCHANGED << called, last >>
  \/ FnReturn /\ result' = NoResult /\ UNCHANGED << called, last >>
  \/ FnThrow /\ result' = NoResult /\ UNCHANGED << called, last >>
  \/ EndSync /\ result' = NoResult /\ UNCHANGED << called, last >>
  \/ BeginSync /\ result' = NoResult /\ UNCHANGED << called, last >>

SpecOnceOff == Init /\ [][NextOnceOff]_vars

\* on and off calls only.
NextOnOff ==
  \/ \E ev \in EventIds, fn \in Fns :
       On(ev, fn) /\ result' = Result("on", ev, fn, FALSE)
       /\ UNCHANGED << called, last >>
  \/ \E ev \in EventIds, fn \in Fns :
       Off(ev, fn)
       /\ result' = Result("off", ev, fn,
                           OffReg(listeners, heap, StringOf(ev), fn).ret)
       /\ UNCHANGED << called, last >>

SpecOnOff == Init /\ [][NextOnOff]_vars

\* ------------------------------------------------------------- claims
Pair(c) == << c.key, c.l >>
Views(map, hp) == [k \in Keys |-> ViewOf(map, hp, k)]
EmIds == { e \in 1..Len(ems) : ems[e].kind # "done" }

\* C1: calling an unsubscribe function removes at most its own (event,
\* listener) registration; every other registration, of that event or of
\* another, stays.
C1_UnsubscribeRemovesOnlyItsPair ==
  [][last' # NoClosure =>
       (Registered \ { Pair(last') }) \subseteq RegOf(listeners', heap')]_vars

\* C2: once an unsubscribe function has been called, a later call of it,
\* made while its listener is not registered, leaves the registry as it is
\* (so a listener registered in between stays registered).
C2_LaterCallsAreNoOps ==
  [][(last' \in called /\ Pair(last') \notin Registered)
       => Views(listeners', heap') = Views(listeners, heap)]_vars

\* C3: the unsubscribe function returned by on(event, listener) leaves the
\* registry that off(event, listener) would have left from the same state.
C3_UnsubscribeEqualsOff ==
  [][last' # NoClosure =>
       Views(listeners', heap') =
         Views(OffReg(listeners, heap, last'.key, last'.l).map,
               OffReg(listeners, heap, last'.key, last'.l).heap)]_vars

\* C4: the listener of one once() call is invoked at most once, over all
\* emissions.
C4_OnceInvokedAtMostOnce ==
  \A n \in 1..Len(wrappers) : wrappers[n].fired <= 1

\* C5: while the original listener of a once() registration runs, its
\* wrapper is no longer registered.
C5_WrapperRemovedBeforeListenerRuns ==
  \A i \in 1..Len(stack) :
    IsWrapper(stack[i].l) =>
      << wrappers[WIndex(stack[i].l)].key, stack[i].l >> \notin Registered

\* C6: a once() registration whose unsubscribe was called before any
\* emission of its event is not registered and is never invoked.
C6_CancelledOnceNeverFires ==
  \A n \in 1..Len(wrappers) :
    wrappers[n].cancelled =>
      /\ wrappers[n].fired = 0
      /\ << wrappers[n].key, WName[n] >> \notin Registered

\* An emission of the event was made after the cancellation, and delivered
\* to another listener.
C6_Witness ==
  \E n \in 1..Len(wrappers), e \in EmIds :
    /\ wrappers[n].cancelled /\ wrappers[n].seen
    /\ ems[e].key = wrappers[n].key
    /\ Finished(ems[e]) /\ ems[e].calls # << >>

\* C7: emit calls the listeners registered at the start of the call, in
\* registration order, each once and with the payload of the call: at any
\* moment the calls made are the first listeners of that list, and when emit
\* returns all of them were called; with no listener emit returns at once.
C7_EmitInRegistrationOrder ==
  \A e \in EmIds :
    ems[e].kind = "emit" =>
      LET em == ems[e] IN
      /\ Len(em.calls) <= Len(em.atStart)
      /\ \A j \in 1..Len(em.calls) :
           em.calls[j].l = em.atStart[j] /\ em.calls[j].p = em.p
      /\ em.status = "returned" => Len(em.calls) = Len(em.atStart)
      /\ em.atStart = << >> => em.status = "returned"

\* emit has returned after calling two listeners.
C7_Witness ==
  \E e \in EmIds :
    /\ ems[e].kind = "emit" /\ ems[e].status = "returned"
    /\ Len(ems[e].calls) >= 2

\* C8: in emit, a listener that throws is the last listener the call
\* invokes and the error leaves emit; the listeners before it were each
\* called once and returned.
C8_ThrowAbortsEmit ==
  \A e \in EmIds :
    ems[e].kind = "emit" =>
      LET em == ems[e] IN
      /\ \A j \in 1..Len(em.calls) :
           em.calls[j].out = "threw" =>
             /\ j = Len(em.calls)
             /\ em.status = "threw"
             /\ \A i \in 1..(j - 1) : em.calls[i].out = "returned"
      /\ em.status = "threw" =>
           /\ em.calls # << >>
           /\ em.calls[Len(em.calls)].out = "threw"
           /\ \A i \in 1..Len(stack) : stack[i].em # e

\* The first listener returned, the second threw, a third was never called.
C8_Witness ==
  \E e \in EmIds :
    /\ ems[e].kind = "emit" /\ ems[e].status = "threw"
    /\ Len(ems[e].calls) = 2 /\ Len(ems[e].snap) = 3

\* C9: an emission (emit or emitAsync) calls listeners of the list that was
\* registered when it started and no other, whatever is added or removed
\* while it is in progress; when it completes without a throw in emit, every
\* listener of that list was called.
C9_EmissionUsesSnapshot ==
  \A e \in EmIds :
    LET em == ems[e] IN
    /\ Len(em.calls) <= Len(em.atStart)
    /\ \A j \in 1..Len(em.calls) : em.calls[j].l = em.atStart[j]
    /\ em.status \in { "returned", "resolved" } =>
         { em.calls[j].l : j \in 1..Len(em.calls) } = Range(em.atStart)

\* An emission has completed; while it was in progress one listener was
\* added to its event and one of its listeners was removed.
C9_Witness ==
  \E e \in EmIds :
    /\ ems[e].status \in { "returned", "resolved" }
    /\ Range(View(ems[e].key)) \ Range(ems[e].atStart) # {}
    /\ Range(ems[e].atStart) \ Range(View(ems[e].key)) # {}

\* C10: a listener that was removed and not registered again when an
\* emission starts is not invoked by that emission.
C10_RemovedNotInvoked ==
  \A e \in EmIds :
    \A j \in 1..Len(ems[e].calls) : ems[e].calls[j].l \notin ems[e].gone

\* An emission that started after a removal has delivered to the listeners
\* that were left.
C10_Witness ==
  \E e \in EmIds :
    /\ ems[e].gone # {}
    /\ Finished(ems[e]) /\ ems[e].calls # << >>

\* The (key, listener) pairs that on() registered and that were not removed
\* since, as the calls made so far tell it.
OnNotRemoved(key) ==
  { c.l : c \in { d \in unsubs : d.key = key /\ Pair(d) \notin removed } }

\* C14: after on and off calls, listenerCount(event) is the number of
\* distinct listeners registered for the event and not removed since (a
\* listener registered twice counts once, an event without listeners counts
\* 0), and hasListeners(event) is true exactly when that number is positive.
C14_CountIsDistinctRegistered ==
  \A ev \in EventIds :
    /\ listenerCount(ev) = Cardinality(OnNotRemoved(StringOf(ev)))
    /\ hasListeners(ev) <=> OnNotRemoved(StringOf(ev)) # {}

\* One event counts two listeners, another counts 0 after its listeners
\* were removed.
C14_Witness ==
  \E e1, e2 \in EventIds :
    /\ listenerCount(e1) = 2
    /\ listenerCount(e2) = 0 /\ ~hasListeners(e2)
    /\ \E pr \in removed : pr[1] = StringOf(e2)

\* C15: off(event, listener) returns true exactly when the listener was
\* registered for the event, and then only that registration is gone; when
\* it returns false the registry is as it was.
C15_OffReportsRemoval ==
  [][result'.op = "off" =>
       LET pr == << result'.key, result'.l >> IN
       /\ result'.ret = (pr \in Registered)
       /\ RegOf(listeners', heap') = Registered \ { pr }
       /\ ~result'.ret => Views(listeners', heap') = Views(listeners, heap)]_vars

\* off returned false for a listener that had been removed before, on an
\* event that still has a listener.
C15_Witness ==
  /\ result.op = "off" /\ ~result.ret
  /\ << result.key, result.l >> \in removed
  /\ listenerCount(result.ev) > 0

\* C16: clear() leaves every event with no listener; clear(event) leaves the
\* event with no listener and every other event with the listeners it had;
\* clear(event) on an event without listeners changes nothing.
C16_ClearRemovesItsEventOnly ==
  [][/\ result'.op = "clearAll" =>
          \A k \in Keys : ViewOf(listeners', heap', k) = << >>
     /\ result'.op = "clear" =>
          /\ ViewOf(listeners', heap', result'.key) = << >>
          /\ \A k \in Keys \ { result'.key } :
               ViewOf(listeners', heap', k) = View(k)
          /\ View(result'.key) = << >> =>
               Views(listeners', heap') = Views(listeners, heap)]_vars

\* clear(event) removed the listeners of its event while another event
\* keeps its own.
C16_Witness ==
  /\ result.op = "clear"
  /\ \E pr \in removed : pr[1] = result.key
  /\ \E k \in Keys \ { result.key } : View(k) # << >>

\* C17: on, off, once and clear(event) applied to one event identifier leave
\* the listeners of every other identifier as they were.
C17_IdentifiersAreIndependent ==
  [][result'.op \in { "on", "off", "once", "clear" } =>
       \A e2 \in EventIds \ { result'.ev } :
         ViewOf(listeners', heap', StringOf(e2)) = View(StringOf(e2))]_vars

\* C20: no key of the Map holds an empty Set.
C20_NoEmptySetInRegistry ==
  \A k \in Keys : listeners[k] # 0 => heap[listeners[k]] # << >>

\* A removal emptied a Set and the Map has no entry left.
C20_Witness ==
  /\ removed # {}
  /\ \E i \in 1..Len(heap) : heap[i] = << >>
  /\ \A k \in Keys : listeners[k] = 0

\* C18: once a once() wrapper's invocation has ended with the listener's
\* throw, the wrapper is out of the registry (listenerCount does not count
\* it) and an emission that starts afterwards does not have it among its
\* listeners.
C18_OnceRemovedWhenListenerThrows ==
  \A e \in EmIds :
    \A j \in 1..Len(ems[e].calls) :
      LET c == ems[e].calls[j] IN
      (IsWrapper(c.l) /\ c.out = "threw") =>
        /\ << wrappers[WIndex(c.l)].key, c.l >> \notin Registered
        /\ \A e2 \in EmIds :
             c.l \in ems[e2].gone =>
               /\ c.l \notin Range(ems[e2].snap)
               /\ \A i \in 1..Len(ems[e2].calls) : ems[e2].calls[i].l # c.l

\* A once() listener threw, and an emission that started afterwards has
\* delivered to another listener.
C18_Witness ==
  \E e, e2 \in EmIds :
    \E j \in 1..Len(ems[e].calls) :
      /\ IsWrapper(ems[e].calls[j].l) /\ ems[e].calls[j].out = "threw"
      /\ ems[e].calls[j].l \in ems[e2].gone
      /\ ems[e2].calls # << >>

\* The emitAsync calls on record, and the listener jobs an emitAsync call
\* still has in the queue.
AsyncIds == { e \in EmIds : ems[e].kind = "async" }
Queued(e) ==
  Len(SelectSeq(queue, LAMBDA t : t.job = "listener" /\ t.em = e))

\* The outcome of a listener that failed with its own error.
Failure(l) == [ok |-> "false", v |-> ErrVal(UserFn(l))]

\* C11: an emitAsync call never ends with an error: its promise is pending
\* or resolved, and resolved only with an outcome in every slot; a listener
\* that throws or whose promise is rejected gets the outcome {ok: false,
\* error} with its own error, and every other listener of the snapshot is
\* still called or still queued.
C11_EmitAsyncNeverRejects ==
  \A e \in AsyncIds :
    LET em == ems[e] IN
    /\ em.status \in { "pending", "resolved" }
    /\ Len(em.calls) + Queued(e) = Len(em.snap)
    /\ em.status = "resolved" => AllSettled(em)
    /\ \A j \in 1..Len(em.calls) :
         em.calls[j].out \in { "threw", "rejected" } =>
           /\ em.results[j] \in { NoOutcome, Failure(em.snap[j]) }
           /\ em.values[j] \in { NoOutcome, Failure(em.snap[j]) }

\* A call resolved with every listener failed: one threw, one returned a
\* promise that was rejected.
C11_Witness ==
  \E e \in AsyncIds :
    /\ ems[e].status = "resolved"
    /\ \E i, j \in 1..Len(ems[e].calls) :
         ems[e].calls[i].out = "threw" /\ ems[e].calls[j].out = "rejected"
    /\ \A k \in 1..Len(ems[e].values) : ems[e].values[k].ok = "false"

\* The outcomes a listener of the Set can get.
OutcomesOf(l) ==
  { Outcome(l, out) : out \in { "returned", "threw", "fulfilled", "rejected" } }

\* C12: the array emitAsync resolves with has one slot per listener of the
\* snapshot taken at the call (none, and it resolves at once, when the event
\* has no listener); the outcome in slot i is an outcome of the i-th
\* listener in registration order whatever the order in which the outcomes
\* arrive, and a resolved call has every slot filled.
C12_OneOutcomePerListenerInOrder ==
  \A e \in AsyncIds :
    LET em == ems[e] IN
    /\ Len(em.values) = Len(em.atStart)
    /\ em.atStart = << >> => em.status = "resolved"
    /\ em.status = "resolved" => AllSettled(em)
    /\ \A i \in 1..Len(em.values) :
         Settled(em.values[i]) => em.values[i] \in OutcomesOf(em.atStart[i])

\* The outcome of the second listener is in the array while the promise the
\* first one returned is still pending.
C12_Witness ==
  \E e \in AsyncIds :
    /\ Len(ems[e].calls) >= 2
    /\ ems[e].calls[1].out = "promised" /\ ~Settled(ems[e].values[1])
    /\ Settled(ems[e].values[2])

\* C13: the outcome of a listener delivered to by emitAsync, registered
\* with on or with once, is {ok: true, value} with the value the listener
\* returned or its promise was fulfilled with, and {ok: false, error} with
\* the error it threw or its promise was rejected with; it has no outcome
\* while the promise it returned is pending.
C13_OutcomeCarriesListenerResult ==
  \A e \in AsyncIds :
    \A j \in 1..Len(ems[e].calls) :
      LET out == ems[e].calls[j].out
          fn == UserFn(ems[e].snap[j])
          got == ems[e].values[j]
      IN  /\ out \in { "returned", "fulfilled" } =>
               got \in { NoOutcome, [ok |-> "true", v |-> RetVal(fn)] }
          /\ out \in { "threw", "rejected" } =>
               got \in { NoOutcome, [ok |-> "false", v |-> ErrVal(fn)] }
          /\ out = "promised" => got = NoOutcome

\* Every listener of the call was called and has settled: l(data) returned
\* or threw, or the promise it returned was fulfilled or rejected.  A once()
\* wrapper has returned as soon as its listener has, promise or not.
ListenersSettled(e) ==
  /\ Len(ems[e].calls) = Len(ems[e].snap)
  /\ \A j \in 1..Len(ems[e].calls) :
       \/ ems[e].calls[j].out \in { "returned", "threw", "fulfilled", "rejected" }
       \/ ems[e].calls[j].out = "promised" /\ IsWrapper(ems[e].calls[j].l)

\* C19: the promise of an emitAsync call is resolved only when every
\* listener of its snapshot has settled, and once they all have it is
\* eventually resolved; every listener of a pending call is eventually
\* started, whether or not the listeners started before it ever settle.
C19_StartsAllResolvesWhenAllSettled ==
  /\ [](\A e \in AsyncIds :
          ems[e].status = "resolved" => ListenersSettled(e) /\ AllSettled(ems[e]))
  /\ \A e \in 1..MaxEmits :
       (e \in AsyncIds /\ ems[e].status = "pending" /\ ListenersSettled(e))
         ~> (e \in 1..Len(ems) /\ ems[e].status \in { "resolved", "done" })
  /\ \A e \in 1..MaxEmits :
       (e \in AsyncIds /\ ems[e].status = "pending")
         ~> (e \in AsyncIds => Len(ems[e].calls) = Len(ems[e].snap))

\* The promise the first listener returned is pending; the second listener
\* was started and its outcome is in the array, no job of the call is left
\* in the queue, and the call is pending.
C19_Witness ==
  \E e \in AsyncIds :
    /\ ems[e].status = "pending"
    /\ Len(ems[e].calls) >= 2
    /\ ems[e].calls[1].out = "promised" /\ ems[e].calls[1].sub
    /\ Settled(ems[e].values[2])
    /\ \A i \in 1..Len(queue) : queue[i].em # e

\* The once() wrappers registered for `key` whose listener is `fn`.
OnceOf(key, fn) ==
  { WName[n] : n \in { i \in 1..Len(wrappers) :
       /\ wrappers[i].fn = fn /\ wrappers[i].key = key
       /\ << key, WName[i] >> \in Registered } }

\* The once() wrappers that are registered before a step and no longer
\* after it, each with its key.
OnceRemoved ==
  { pr \in Registered : IsWrapper(pr[2]) /\ pr \notin RegOf(listeners', heap') }

C22_EmitAsyncDefersListeners ==
  /\ \A i \in 1..Len(stack) :
       ems[stack[i].em].kind = "async" => (i = 1 /\ ~inSync)
  /\ \A e \in AsyncIds :
       /\ ems[e].snap = ems[e].atStart
       /\ ems[e].calls # << >> => ~inSync
       /\ Len(ems[e].calls) + Queued(e) = Len(ems[e].snap)
       /\ \A j \in 1..Len(ems[e].calls) : ems[e].calls[j].l = ems[e].snap[j]

\* The caller's code is still running after an emitAsync call: no listener
\* of that call has run, a synchronous emit issued after it has delivered
\* and returned, and a listener of the emitAsync snapshot was removed from
\* the registry meanwhile.
C22_Witness ==
  /\ inSync
  /\ \E e1 \in AsyncIds, e2 \in EmIds :
       /\ e1 < e2
       /\ ems[e1].status = "pending" /\ ems[e1].calls = << >>
       /\ ems[e2].kind = "emit" /\ ems[e2].status = "returned"
       /\ ems[e2].calls # << >>
       /\ Range(ems[e1].snap) \ Range(View(ems[e1].key)) # {}
====
